---- MODULE Spec2Model ----
(***************************************************************************)
(* Model of the flight price tracker (src/flight_tracker.py).              *)
(*                                                                         *)
(* Conventions of the model:                                               *)
(*  - a calendar date (ISO string in the code) is a day number;            *)
(*  - an amount the code rounds to 2 decimals (avg_7d, market_avg) is kept *)
(*    in hundredths, so 285.5 is 28550;                                    *)
(*  - a python dict keyed by task id is a function whose DOMAIN is the set *)
(*    of keys present;                                                     *)
(*  - the value returned by fetch_flight_price is tagged with its python   *)
(*    type, because the code returns a list on one path and a dict on the  *)
(*    other;                                                               *)
(*  - a listing row is represented by the price the regular expressions    *)
(*    extract from it (0 when none matches) and the carrier matched.       *)
(***************************************************************************)
EXTENDS Integers, Sequences, FiniteSets, TLC

VARIABLES
    file,             \* contents of price_history.json
    history,          \* run_tracker: the dict returned by load_history
    today,            \* the process-local calendar day
    pc,               \* position of the run_tracker process
    i,                \* run_tracker: index in TASKS of the current task
    all_flights,      \* run_tracker: value returned by fetch_flight_price
    stats,            \* run_tracker: value returned by calculate_stats
    recommendations,  \* run_tracker: the messages of this run
    runs,             \* number of runs started
    arg,              \* the arguments of a direct call of a function
    ret               \* the value that call returned

vars == << file, history, today, pc, i, all_flights, stats, recommendations,
           runs, arg, ret >>

trackerVars == << file, history, today, pc, i, all_flights, stats,
                  recommendations, runs >>

----------------------------------------------------------------------------
(* Bounds of the model *)

MaxRuns == 2

MaxRows == 2

MaxRecords == 3

----------------------------------------------------------------------------
(* Constants of the program *)

TASKS ==
    << [id |-> "sf_weekend", route_name |-> "SEA-SFO", price_trigger |-> 160],
       [id |-> "desert_escape", route_name |-> "SEA-PSP", price_trigger |-> 400] >>

NumTasks == Len(TASKS)

TaskIds == { TASKS[k].id : k \in 1..NumTasks }

WindowDays == 7

VolatilityThreshold == 50

\* 0.95, in hundredths
DipFactor == 95

\* \d{1,4}: the most digits the patterns take before a separator
MaxLeadDigits == 4

\* (?:,\d{3})?: the digits of the one optional separator group
GroupDigits == 3

PriorityAirlines ==
    << "Alaska", "Delta", "United", "American", "Southwest", "Hawaiian" >>

----------------------------------------------------------------------------
(* Arithmetic helpers *)

RECURSIVE SumPrices(_)
SumPrices(s) == IF s = << >> THEN 0 ELSE s[1].price + SumPrices(Tail(s))

\* round(num / den, 2) in hundredths; python rounds the exact tie to even
Round2(num, den) ==
    LET n == 100 * num
        q == n \div den
        r == n % den
    IN  IF 2 * r < den THEN q
        ELSE IF 2 * r > den THEN q + 1
        ELSE IF q % 2 = 0 THEN q ELSE q + 1

IsPrefix(s, t) ==
    /\ Len(s) <= Len(t)
    /\ \A k \in 1..Len(s) : s[k] = t[k]

----------------------------------------------------------------------------
(* The history store *)

EmptyStore == << >>

MissingFile == [state |-> "missing", data |-> EmptyStore]

CorruptFile == [state |-> "corrupt", data |-> EmptyStore]

\* load_history: a missing or unparseable file gives {}
LoadHistory(f) == IF f.state = "json" THEN f.data ELSE EmptyStore

\* save_history: the file is overwritten with the whole dict
SaveHistory(h) == [state |-> "json", data |-> h]

\* history.get(task_id, {}).get("history", [])
Records(h, task_id) ==
    IF task_id \in DOMAIN h THEN h[task_id].history ELSE << >>

----------------------------------------------------------------------------
(* fetch_flight_price *)

\* what the function returns when navigation or the wait for the listing
\* container raises: the dict {"price": 0, "carrier": "N/A"}
FetchFailed == [type |-> "dict", items |-> << [price |-> 0, carrier |-> "N/A"] >>]

NoValue == [type |-> "none", items |-> << >>]

PyList(items) == [type |-> "list", items |-> items]

\* the rows of a listing: price 0 stands for a row in which no price
\* pattern matches
Rows ==
    { [price |-> 0, carrier |-> "Unknown"],
      [price |-> 170, carrier |-> "Alaska"],
      [price |-> 420, carrier |-> "Delta"] }

RowLists == UNION { [1..n -> Rows] : n \in 0..MaxRows }

\* KeepRow without the test of the price: every row becomes a quote
KeepRowAny(row) == row.price >= 0

\* a row becomes a quote of the results only when its price is positive
KeepRow(row) == row.price > 0

(* Price extraction from one row.  A string is a sequence of tokens: one   *)
(* token per digit, comma, blank and "$", and one per word ("US",          *)
(* "dollars", a carrier name, other text).                                 *)

Digits == {"0", "1", "2", "3", "4", "5", "6", "7", "8", "9"}

DigitVal(c) ==
    CASE c = "0" -> 0 [] c = "1" -> 1 [] c = "2" -> 2 [] c = "3" -> 3
      [] c = "4" -> 4 [] c = "5" -> 5 [] c = "6" -> 6 [] c = "7" -> 7
      [] c = "8" -> 8 [] c = "9" -> 9

IsDigitAt(s, p) == p >= 1 /\ p <= Len(s) /\ s[p] \in Digits

IsTokenAt(s, p, c) == p >= 1 /\ p <= Len(s) /\ s[p] = c

RECURSIVE DigitRun(_, _)
\* number of digits in a row from position p on
DigitRun(s, p) == IF IsDigitAt(s, p) THEN 1 + DigitRun(s, p + 1) ELSE 0

RECURSIVE SpaceRun(_, _)
\* number of blanks in a row from position p on
SpaceRun(s, p) == IF IsTokenAt(s, p, " ") THEN 1 + SpaceRun(s, p + 1) ELSE 0

\* \s+US\s+dollars matches at position q
UsDollarsAt(s, q) ==
    LET a == SpaceRun(s, q)
        b == SpaceRun(s, q + a + 1)
    IN  /\ a >= 1
        /\ IsTokenAt(s, q + a, "US")
        /\ b >= 1
        /\ IsTokenAt(s, q + a + 1 + b, "dollars")

\* (?:,\d{3}) matches at position q
GroupAt(s, q) == IsTokenAt(s, q, ",") /\ DigitRun(s, q + 1) >= GroupDigits

RECURSIVE NumberEnds(_, _, _)
\* the positions after a match of \d{1,4}(?:,\d{3})? that starts at p, in
\* the order the matcher tries them: most digits first, and for each count
\* of digits the separator group before its absence
NumberEnds(s, p, d) ==
    IF d = 0 THEN << >>
    ELSE (IF d <= DigitRun(s, p)
          THEN (IF GroupAt(s, p + d) THEN << p + d + 1 + GroupDigits >>
                ELSE << >>) \o << p + d >>
          ELSE << >>) \o NumberEnds(s, p, d - 1)

\* the end of the match of (\d{1,4}(?:,\d{3})?)\s+US\s+dollars at p, 0 if none
UsDollarsEnd(s, p) ==
    LET Fits(e) == UsDollarsAt(s, e)
        ends == SelectSeq(NumberEnds(s, p, MaxLeadDigits), Fits)
    IN  IF ends = << >> THEN 0 ELSE Head(ends)

\* the end of the match of \$(\d{1,4}(?:,\d{3})?) at p, 0 if none
DollarSignEnd(s, p) ==
    LET ends == NumberEnds(s, p + 1, MaxLeadDigits)
    IN  IF IsTokenAt(s, p, "$") /\ ends # << >> THEN Head(ends) ELSE 0

\* re.search(...).group(1) for the "US dollars" pattern: the match at the
\* leftmost position that has one, << >> for None
SearchUsDollars(s) ==
    LET starts == { p \in 1..Len(s) : UsDollarsEnd(s, p) # 0 }
    IN  IF starts = {} THEN << >>
        ELSE LET p == CHOOSE x \in starts : \A y \in starts : x <= y
             IN  SubSeq(s, p, UsDollarsEnd(s, p) - 1)

\* re.search(...).group(1) for the "$" pattern
SearchDollarSign(s) ==
    LET starts == { p \in 1..Len(s) : DollarSignEnd(s, p) # 0 }
    IN  IF starts = {} THEN << >>
        ELSE LET p == CHOOSE x \in starts : \A y \in starts : x <= y
             IN  SubSeq(s, p + 1, DollarSignEnd(s, p) - 1)

RECURSIVE DecimalValue(_)
\* int() of a string of digits
DecimalValue(ds) ==
    IF ds = << >> THEN 0
    ELSE 10 * DecimalValue(SubSeq(ds, 1, Len(ds) - 1)) + DigitVal(ds[Len(ds)])

\* int(price_match.group(1).replace(',', ''))
GroupValue(g) ==
    LET NotComma(c) == c # ","
    IN  DecimalValue(SelectSeq(g, NotComma))

\* lines 105-112: the "US dollars" pattern in the label first, the "$"
\* pattern in label + text only when the first has no match
ExtractPrice(aria_label, airline_text) ==
    LET first == SearchUsDollars(aria_label)
        second == SearchDollarSign(aria_label \o airline_text)
    IN  IF first # << >> THEN GroupValue(first)
        ELSE IF second # << >> THEN GroupValue(second)
        ELSE 0

\* the label of the row itself, else the one of its first labelled
\* descendant
AriaLabel(row) == IF row.aria # << >> THEN row.aria ELSE row.child

RECURSIVE FirstCarrier(_, _)
\* the first priority airline found in the text, "Unknown" if none
FirstCarrier(text, k) ==
    IF k > Len(PriorityAirlines) THEN "Unknown"
    ELSE IF \E p \in 1..Len(text) : text[p] = PriorityAirlines[k]
         THEN PriorityAirlines[k]
    ELSE FirstCarrier(text, k + 1)

\* the body of the loop over the rows, up to the test of the price
ReadRow(row) ==
    LET aria_label == AriaLabel(row)
        airline_text == row.inner_text \o << " " >> \o aria_label
    IN  [price |-> ExtractPrice(aria_label, airline_text),
         carrier |-> FirstCarrier(airline_text, 1)]

\* loaded is FALSE when page.goto or wait_for_selector raises
FetchFlightPrice(loaded, rows) ==
    IF ~loaded THEN FetchFailed ELSE PyList(SelectSeq(rows, KeepRow))

\* the values a fetch can return, over the listings of the model
FetchResults ==
    { FetchFlightPrice(loaded, rows) : loaded \in BOOLEAN, rows \in RowLists }

----------------------------------------------------------------------------
(* calculate_stats *)

IsValid(rec) == rec.price > 0

\* mean of the prices of a non-empty list of records, rounded to 2 decimals
MeanPrice(recs) == Round2(SumPrices(recs), Len(recs))

RECURSIVE SumSquares(_)
SumSquares(s) ==
    IF s = << >> THEN 0 ELSE s[1].price * s[1].price + SumSquares(Tail(s))

\* df['price'].std() > 50, the sample standard deviation (ddof = 1):
\* sqrt((n*Sxx - Sx^2) / (n*(n-1))) > 50
StdExceeds(recs, limit) ==
    LET n == Len(recs)
        sx == SumPrices(recs)
    IN  n * SumSquares(recs) - sx * sx > limit * limit * n * (n - 1)

\* calculate_stats without the filter on the price
CalculateStatsNoFilter(h, task_id, now) ==
    LET records == Records(h, task_id)
        df == records
        InWindow(rec) == rec.date >= now - WindowDays
        recent == SelectSeq(df, InWindow)
        volatile == IF Len(df) > 1 THEN StdExceeds(df, VolatilityThreshold)
                    ELSE FALSE
    IN  IF records = << >> THEN [avg_7d |-> 0, status |-> "Stable"]
        ELSE [avg_7d |-> IF recent # << >> THEN MeanPrice(recent)
                         ELSE MeanPrice(df),
              status |-> IF volatile THEN "Volatile" ELSE "Stable"]

\* calculate_stats with the deviation taken over the 7-day window only
CalculateStatsWindowStd(h, task_id, now) ==
    LET records == Records(h, task_id)
        df == SelectSeq(records, IsValid)
        InWindow(rec) == rec.date >= now - WindowDays
        recent == SelectSeq(df, InWindow)
        volatile == IF Len(recent) > 1
                    THEN StdExceeds(recent, VolatilityThreshold)
                    ELSE FALSE
    IN  IF records = << >> THEN [avg_7d |-> 0, status |-> "Stable"]
        ELSE IF df = << >> THEN [avg_7d |-> 0, status |-> "Stable"]
        ELSE [avg_7d |-> IF recent # << >> THEN MeanPrice(recent)
                         ELSE MeanPrice(df),
              status |-> IF volatile THEN "Volatile" ELSE "Stable"]

CalculateStats(h, task_id, now) ==
    LET records == Records(h, task_id)
        df == SelectSeq(records, IsValid)
        InWindow(rec) == rec.date >= now - WindowDays
        recent == SelectSeq(df, InWindow)
        volatile == IF Len(df) > 1 THEN StdExceeds(df, VolatilityThreshold)
                    ELSE FALSE
    IN  IF records = << >> THEN [avg_7d |-> 0, status |-> "Stable"]
        ELSE IF df = << >> THEN [avg_7d |-> 0, status |-> "Stable"]
        ELSE [avg_7d |-> IF recent # << >> THEN MeanPrice(recent)
                         ELSE MeanPrice(df),
              status |-> IF volatile THEN "Volatile" ELSE "Stable"]

----------------------------------------------------------------------------
(* get_recommendation *)

\* the four strings the function can return, with the values they embed
Unavailable == [text |-> "Intelligence unavailable", route_name |-> "",
                price |-> 0, target |-> 0]

TargetHit(route_name, price) ==
    [text |-> "Target hit", route_name |-> route_name, price |-> price,
     target |-> 0]

DipDetected(route_name, price) ==
    [text |-> "dip detected below the 7-day average",
     route_name |-> route_name, price |-> price, target |-> 0]

Holding(route_name, price, target) ==
    [text |-> "holding for the target breakthrough",
     route_name |-> route_name, price |-> price, target |-> target]

\* current_price < avg * 0.95, with avg in hundredths.  avg * 0.95 is an
\* integer only when it is computed exactly, and is otherwise at least
\* 1/2000 away from one, so the float comparison is the exact one.
BelowDip(current_price, avg_7d) == current_price * 10000 < avg_7d * DipFactor

\* get_recommendation with the test of the target ahead of the test of 0
GetRecommendationTargetFirst(task_id, current_price, st, target, route_name) ==
    IF current_price <= target THEN TargetHit(route_name, current_price)
    ELSE IF current_price = 0 THEN Unavailable
    ELSE IF BelowDip(current_price, st.avg_7d)
         THEN DipDetected(route_name, current_price)
    ELSE Holding(route_name, current_price, target)

GetRecommendation(task_id, current_price, st, target, route_name) ==
    IF current_price = 0 THEN Unavailable
    ELSE IF current_price <= target THEN TargetHit(route_name, current_price)
    ELSE IF BelowDip(current_price, st.avg_7d)
         THEN DipDetected(route_name, current_price)
    ELSE Holding(route_name, current_price, target)

----------------------------------------------------------------------------
(* run_tracker *)

\* python truth value of the fetched value: an empty list is false, the
\* two-key dict of the failure path is true
IsFalsy(v) == v.type = "list" /\ v.items = << >>

\* min(all_flights, key=lambda x: x['price']) iterates the keys of a dict,
\* which are strings, and x['price'] on a string raises TypeError
MinRaises(v) == v.type = "dict"

\* min(...) returns the first of the cheapest flights
ValueLeader(flights) ==
    flights[CHOOSE k \in 1..Len(flights) :
                /\ \A j \in 1..Len(flights) : flights[k].price <= flights[j].price
                /\ \A j \in 1..(k - 1) : flights[j].price > flights[k].price]

MarketAvg(flights) == Round2(SumPrices(flights), Len(flights))

\* RecordSnapshot that starts the list of the route afresh
RecordSnapshotReplace(h, task_id, date, leader, market_avg) ==
    [id \in DOMAIN h \cup {task_id} |->
        IF id = task_id
        THEN [latest |-> [date |-> date, price |-> leader.price,
                          market_avg |-> market_avg],
              history |-> << [date |-> date, price |-> leader.price,
                              carrier |-> leader.carrier,
                              market_avg |-> market_avg] >>]
        ELSE h[id]]

\* RecordSnapshot that sets the latest entry only when it creates the route
RecordSnapshotStaleLatest(h, task_id, date, leader, market_avg) ==
    [id \in DOMAIN h \cup {task_id} |->
        IF id = task_id
        THEN [latest |-> IF task_id \in DOMAIN h THEN h[task_id].latest
                         ELSE [date |-> date, price |-> leader.price,
                               market_avg |-> market_avg],
              history |-> Append(Records(h, task_id),
                                 [date |-> date, price |-> leader.price,
                                  carrier |-> leader.carrier,
                                  market_avg |-> market_avg])]
        ELSE h[id]]

\* the three statements under "Update history"
RecordSnapshot(h, task_id, date, leader, market_avg) ==
    [id \in DOMAIN h \cup {task_id} |->
        IF id = task_id
        THEN [latest |-> [date |-> date, price |-> leader.price,
                          market_avg |-> market_avg],
              history |-> Append(Records(h, task_id),
                                 [date |-> date, price |-> leader.price,
                                  carrier |-> leader.carrier,
                                  market_avg |-> market_avg])]
        ELSE h[id]]

NoStats == [avg_7d |-> 0, status |-> "Stable"]

NoCall == [fn |-> "none"]

\* history = load_history(); today_str = ...; recommendations = []
Load ==
    /\ pc = "start"
    /\ history' = LoadHistory(file)
    /\ i' = 1
    /\ recommendations' = << >>
    /\ pc' = "fetch"
    /\ UNCHANGED << file, today, all_flights, stats, runs, arg, ret >>

\* all_flights = await fetch_flight_price(task)
Fetch ==
    /\ pc = "fetch"
    /\ i <= NumTasks
    /\ all_flights' \in FetchResults
    /\ pc' = "process"
    /\ UNCHANGED << file, history, today, i, stats, recommendations, runs,
                    arg, ret >>

\* Continue that writes a price-0 snapshot for the route without quotes
ContinueRecordsZero ==
    /\ pc = "process"
    /\ IsFalsy(all_flights)
    /\ history' = RecordSnapshot(history, TASKS[i].id, today,
                                 [price |-> 0, carrier |-> "N/A"], 0)
    /\ i' = i + 1
    /\ pc' = "fetch"
    /\ UNCHANGED << file, today, all_flights, stats, recommendations, runs,
                    arg, ret >>

\* the loop body after the fetch, "if not all_flights: continue"
Continue ==
    /\ pc = "process"
    /\ IsFalsy(all_flights)
    /\ i' = i + 1
    /\ pc' = "fetch"
    /\ UNCHANGED << file, history, today, all_flights, stats,
                    recommendations, runs, arg, ret >>

\* the loop body when min(...) raises: the exception leaves run_tracker
Abort ==
    /\ pc = "process"
    /\ ~IsFalsy(all_flights)
    /\ MinRaises(all_flights)
    /\ pc' = "aborted"
    /\ UNCHANGED << file, history, today, i, all_flights, stats,
                    recommendations, runs, arg, ret >>

\* Record that persists the dict right after the append
RecordAndSave ==
    /\ pc = "process"
    /\ ~IsFalsy(all_flights)
    /\ ~MinRaises(all_flights)
    /\ LET task == TASKS[i]
           leader == ValueLeader(all_flights.items)
           h == RecordSnapshot(history, task.id, today, leader,
                               MarketAvg(all_flights.items))
           st == CalculateStats(h, task.id, today)
       IN  /\ history' = h
           /\ file' = SaveHistory(h)
           /\ stats' = st
           /\ recommendations' =
                 Append(recommendations,
                        GetRecommendation(task.id, leader.price, st,
                                          task.price_trigger,
                                          task.route_name))
    /\ i' = i + 1
    /\ pc' = "fetch"
    /\ UNCHANGED << today, all_flights, runs, arg, ret >>

\* the loop body for a non-empty list of flights
Record ==
    /\ pc = "process"
    /\ ~IsFalsy(all_flights)
    /\ ~MinRaises(all_flights)
    /\ LET task == TASKS[i]
           leader == ValueLeader(all_flights.items)
           h == RecordSnapshot(history, task.id, today, leader,
                               MarketAvg(all_flights.items))
           st == CalculateStats(h, task.id, today)
       IN  /\ history' = h
           /\ stats' = st
           /\ recommendations' =
                 Append(recommendations,
                        GetRecommendation(task.id, leader.price, st,
                                          task.price_trigger,
                                          task.route_name))
    /\ i' = i + 1
    /\ pc' = "fetch"
    /\ UNCHANGED << file, today, all_flights, runs, arg, ret >>

\* the rest of the loop body, from "if not all_flights" on
Process ==
    \/ Continue
    \/ Abort
    \/ Record

\* save_history(history), after the loop.  The write is one step: the file
\* holds either the old contents or the whole new dict.
Save ==
    /\ pc = "fetch"
    /\ i > NumTasks
    /\ file' = SaveHistory(history)
    /\ pc' = "done"
    /\ UNCHANGED << history, today, i, all_flights, stats, recommendations,
                    runs, arg, ret >>

\* the process is killed before the write of save_history
Crash ==
    /\ pc \in {"start", "fetch", "process"}
    /\ pc' = "crashed"
    /\ UNCHANGED << file, history, today, i, all_flights, stats,
                    recommendations, runs, arg, ret >>

\* the script is started again, the same day or the next
NewRun ==
    /\ pc \in {"done", "crashed", "aborted"}
    /\ runs < MaxRuns
    /\ runs' = runs + 1
    /\ \E d \in {0, 1} : today' = today + d
    /\ pc' = "start"
    /\ history' = EmptyStore
    /\ i' = 1
    /\ all_flights' = NoValue
    /\ stats' = NoStats
    /\ recommendations' = << >>
    /\ UNCHANGED << file, arg, ret >>

Init ==
    /\ file \in {MissingFile, CorruptFile}
    /\ history = EmptyStore
    /\ today = 1
    /\ pc = "start"
    /\ i = 1
    /\ all_flights = NoValue
    /\ stats = NoStats
    /\ recommendations = << >>
    /\ runs = 1
    /\ arg = NoCall
    /\ ret = NoCall

Next ==
    \/ Load
    \/ Fetch
    \/ Process
    \/ Save
    \/ Crash
    \/ NewRun

Spec == Init /\ [][Next]_vars

----------------------------------------------------------------------------
(* inject_mock_data (src/inject_mock_history.py), and the runs that start  *)
(* from the file it writes                                                 *)

\* range(14, -1, -1): the mock history goes back 14 days from today
MockDays == 14

\* the two routes with the base and the spread of their random prices
MockRoutes ==
    [id \in TaskIds |->
        IF id = "sf_weekend" THEN [base |-> 180, spread |-> 20]
        ELSE [base |-> 450, spread |-> 50]]

\* outcomes of the random draws: the price of a day is at the top or the
\* bottom of its range and the carrier one of the two, in turn from day to
\* day; flip tells which comes first
MockRecord(id, day, k, flip) ==
    [date |-> day - k,
     price |-> MockRoutes[id].base
               + (IF (k % 2 = 0) = flip THEN MockRoutes[id].spread
                  ELSE 0 - MockRoutes[id].spread),
     carrier |-> IF (k % 2 = 0) = flip THEN "Alaska" ELSE "Delta"]

\* the list built for one route, oldest day first
MockHistory(id, day, flip) ==
    [j \in 1..(MockDays + 1) |-> MockRecord(id, day, MockDays + 1 - j, flip)]

\* the file inject_mock_data writes: latest is the last record of the list
InjectMockData(day, flip) ==
    SaveHistory([id \in TaskIds |->
                    [latest |-> MockHistory(id, day, flip)[MockDays + 1],
                     history |-> MockHistory(id, day, flip)]])

\* run_tracker starts with no file or with the file of inject_mock_data, for
\* one outcome of its draws in which both ends of the price ranges and both
\* carriers occur
InitMock ==
    /\ today = MockDays + 1
    /\ file \in {MissingFile, InjectMockData(today, TRUE)}
    /\ history = EmptyStore
    /\ pc = "start"
    /\ i = 1
    /\ all_flights = NoValue
    /\ stats = NoStats
    /\ recommendations = << >>
    /\ runs = 1
    /\ arg = NoCall
    /\ ret = NoCall

\* the steps of the runs themselves, without the kill of the process (a
\* killed run leaves the file as the failed fetch of Abort does)
NextRuns ==
    \/ Load
    \/ Fetch
    \/ Process
    \/ Save
    \/ NewRun

SpecMock == InitMock /\ [][NextRuns]_vars

----------------------------------------------------------------------------
(* Direct calls of calculate_stats, on histories that may hold price-0     *)
(* records written by another variant of the pipeline                      *)

StatPrices == {0, 50, 100, 150, 200}

StatDates == {2, 3, 10}

StatRecords ==
    { [date |-> d, price |-> p, carrier |-> "Alaska", market_avg |-> 100 * p] :
        d \in StatDates, p \in StatPrices }

\* a history list is oldest first
StatLists ==
    { recs \in UNION { [1..n -> StatRecords] : n \in 0..MaxRecords } :
        \A k \in 1..(Len(recs) - 1) : recs[k].date <= recs[k + 1].date }

StatStore(recs) ==
    [id \in {"sf_weekend"} |-> [latest |-> [date |-> 0, price |-> 0, market_avg |-> 0],
                                history |-> recs]]

InitCall ==
    /\ file = MissingFile
    /\ history = EmptyStore
    /\ pc = "call"
    /\ i = 1
    /\ all_flights = NoValue
    /\ stats = NoStats
    /\ recommendations = << >>
    /\ runs = 1
    /\ ret = NoCall

InitStats ==
    /\ InitCall
    /\ today \in {10, 11}
    /\ \E recs \in StatLists, id \in TaskIds :
          arg = [fn |-> "calculate_stats", history |-> StatStore(recs),
                 task_id |-> id]

CallCalculateStats ==
    /\ pc = "call"
    /\ arg.fn = "calculate_stats"
    /\ ret' = CalculateStats(arg.history, arg.task_id, today)
    /\ pc' = "returned"
    /\ UNCHANGED << file, history, today, i, all_flights, stats,
                    recommendations, runs, arg >>

NextStats == CallCalculateStats

SpecStats == InitStats /\ [][NextStats]_vars

----------------------------------------------------------------------------
(* Direct calls of get_recommendation *)

RecPrices == {0, 150, 160, 170, 190, 195, 420}

RecAverages == {0, 17000, 20000, 45000}

InitRec ==
    /\ InitCall
    /\ today = 1
    /\ \E k \in 1..NumTasks, p \in RecPrices, a \in RecAverages,
          s \in {"Stable", "Volatile"} :
          arg = [fn |-> "get_recommendation", task_id |-> TASKS[k].id,
                 current_price |-> p, stats |-> [avg_7d |-> a, status |-> s],
                 target |-> TASKS[k].price_trigger,
                 route_name |-> TASKS[k].route_name]

CallGetRecommendation ==
    /\ pc = "call"
    /\ arg.fn = "get_recommendation"
    /\ ret' = GetRecommendation(arg.task_id, arg.current_price, arg.stats,
                                arg.target, arg.route_name)
    /\ pc' = "returned"
    /\ UNCHANGED << file, history, today, i, all_flights, stats,
                    recommendations, runs, arg >>

NextRec == CallGetRecommendation

SpecRec == InitRec /\ [][NextRec]_vars

----------------------------------------------------------------------------
(* The handling of one row of a listing by fetch_flight_price *)

\* the numbers written before "US dollars"
Numerals ==
    { << "5" >>,
      << "1", "7", "0" >>,
      << "1", "2", "3", "4" >>,
      << "1", "2", "3", "4", "5" >>,
      << "1", ",", "2", "3", "4" >>,
      << "1", "2", ",", "3", "4", "5" >>,
      << "1", ",", "2", "3", "4", ",", "5", "6", "7" >> }

\* the numbers written after "$"
DollarNumerals ==
    { << "9", "9" >>,
      << "4", "2", "0" >>,
      << "2", ",", "4", "2", "0" >> }

UsDollarsPhrase(n) ==
    IF n = << >> THEN << >> ELSE n \o << " ", "US", " ", "dollars" >>

DollarSignPhrase(m) == IF m = << >> THEN << >> ELSE << "$" >> \o m

\* the first non-empty of three strings
FirstOf(a, b, c) == IF a # << >> THEN a ELSE IF b # << >> THEN b ELSE c

\* a row: a "$" number or some text, a number of US dollars, a "$" number,
\* each present or not, as the label of the row or of a descendant, and a
\* rendered text with or without a "$" number.  n and m name the number of
\* the "US dollars" phrase and the first "$" number of label + text.
InitParse ==
    /\ InitCall
    /\ today = 1
    /\ \E n \in Numerals \cup {<< >>},
          m1 \in DollarNumerals \cup {<< >>},
          m2 \in DollarNumerals \cup {<< >>},
          m3 \in DollarNumerals \cup {<< >>},
          word \in {<< >>, << "Delta", " " >>},
          own \in BOOLEAN :
          LET label == word \o DollarSignPhrase(m1)
                         \o (IF m1 # << >> /\ n # << >> THEN << " " >> ELSE << >>)
                         \o UsDollarsPhrase(n)
                         \o (IF m2 # << >> THEN << " " >> ELSE << >>)
                         \o DollarSignPhrase(m2)
          IN  arg = [fn |-> "read_row",
                     row |-> [aria |-> IF own THEN label ELSE << >>,
                              child |-> IF own THEN << >> ELSE label,
                              inner_text |-> DollarSignPhrase(m3)],
                     n |-> n,
                     m |-> FirstOf(m1, m2, m3)]

\* one pass of the loop over the rows: the row gives one quote or none
CallReadRow ==
    /\ pc = "call"
    /\ arg.fn = "read_row"
    /\ ret' = SelectSeq(<< ReadRow(arg.row) >>, KeepRow)
    /\ pc' = "returned"
    /\ UNCHANGED << file, history, today, i, all_flights, stats,
                    recommendations, runs, arg >>

NextParse == CallReadRow

SpecParse == InitParse /\ [][NextParse]_vars

----------------------------------------------------------------------------
(* Properties of run_tracker, under Spec *)

Persisted == LoadHistory(file)

NoZeroPrice(store) ==
    \A id \in DOMAIN store :
        /\ store[id].latest.price # 0
        /\ \A k \in 1..Len(store[id].history) : store[id].history[k].price # 0

\* C1: whatever the outcomes of the fetches of the runs so far, no
\* snapshot with price 0 is in the history list or the latest entry of a
\* route, neither in memory nor in the file.
C1_NoZeroPriceStored == NoZeroPrice(history) /\ NoZeroPrice(Persisted)

\* a second run ended with a saved file that holds both snapshots of the
\* first route, after a fetch of the last route that gave no quote
C1_Witness ==
    /\ pc = "done"
    /\ runs = 2
    /\ IsFalsy(all_flights)
    /\ Len(Records(Persisted, "sf_weekend")) = 2

\* C2: a failed fetch gives run_tracker an empty result, and the run is
\* not aborted by it: it goes on to the next route and to save_history.
C2_FetchFailureDoesNotAbort ==
    /\ all_flights.type = "dict" => IsFalsy(all_flights)
    /\ pc # "aborted"

OneSnapshotPerDate(store) ==
    \A id \in DOMAIN store :
        \A j, k \in 1..Len(store[id].history) :
            j < k => store[id].history[j].date # store[id].history[k].date

\* C3: the history of a route holds at most one snapshot per calendar
\* date, in memory and in the file.
C3_OneSnapshotPerDate == OneSnapshotPerDate(history) /\ OneSnapshotPerDate(Persisted)

\* C4: the history of every route is append-only.  The persisted list
\* before a step is a prefix of the persisted list after it and a save adds
\* at most one entry to it; within a run the list in memory only grows at
\* its end, and holds at most one entry more than the persisted list it
\* was loaded from.
C4_AppendOnly ==
    [][\A id \in TaskIds :
          /\ IsPrefix(Records(Persisted, id), Records(Persisted', id))
          /\ Len(Records(Persisted', id)) <= Len(Records(Persisted, id)) + 1
          /\ (pc \in {"fetch", "process"} /\ pc' # "start") =>
                /\ IsPrefix(Records(history, id), Records(history', id))
                /\ IsPrefix(Records(Persisted, id), Records(history', id))
                /\ Len(Records(history', id)) <= Len(Records(Persisted, id)) + 1
      ]_vars

\* the second run saved a second snapshot after the one of the first run
C4_Witness ==
    /\ pc = "done"
    /\ runs = 2
    /\ Len(Records(Persisted, "desert_escape")) = 2
    /\ Len(Records(Persisted, "sf_weekend")) = 1

\* C5: no step of a run other than the final save changes the file, so
\* when the process stops before that save the file is what it was when
\* the run started.
C5_CrashKeepsDurableState == [][pc' # "done" => file' = file]_vars

\* the process crashed after it had appended a snapshot for every route in
\* memory, and none of them is in the file
C5_Witness ==
    /\ pc = "crashed"
    /\ DOMAIN history = TaskIds
    /\ i > NumTasks
    /\ DOMAIN Persisted = {}

\* C6: processing a route whose fetch gave no quote leaves the dict in
\* memory (history lists, latest entries, set of routes) and the file
\* unchanged.
C6_EmptyResultIsNoOp ==
    [][(pc = "process" /\ IsFalsy(all_flights)) =>
          (history' = history /\ file' = file)]_vars

\* the first route gave no quote and has no entry, the loop is at the
\* second route
C6_Witness ==
    /\ pc = "fetch"
    /\ i = 2
    /\ IsFalsy(all_flights)
    /\ "sf_weekend" \notin DOMAIN history

\* C7: the run emits one message per route, in task order, whatever the
\* fetch gave: after k routes there are k messages, and NumTasks at the end.
C7_OneMessagePerRoute ==
    pc \in {"fetch", "done"} => Len(recommendations) = i - 1

----------------------------------------------------------------------------
(* Properties of get_recommendation, under SpecRec *)

\* C8: the result is that of the earliest applicable rule: price 0 gives
\* the unavailable message whatever the other arguments; otherwise a price
\* at or under the target gives the target-hit message, also when the price
\* is under 95% of the average; otherwise a price under 95% of the average
\* gives the below-average message.
C8_EarliestRuleWins ==
    pc = "returned" /\ arg.fn = "get_recommendation" =>
        LET p == arg.current_price
            t == arg.target
            a == arg.stats.avg_7d
        IN  /\ p = 0 => ret.text = "Intelligence unavailable"
            /\ (p # 0 /\ p <= t) =>
                  /\ ret.text = "Target hit"
                  /\ ret.route_name = arg.route_name
                  /\ ret.price = p
            /\ (p # 0 /\ p > t /\ 10000 * p < 95 * a) =>
                  /\ ret.text = "dip detected below the 7-day average"
                  /\ ret.route_name = arg.route_name
                  /\ ret.price = p

\* a call where the target rule and the below-average rule both apply
C8_Witness ==
    /\ pc = "returned"
    /\ arg.fn = "get_recommendation"
    /\ arg.current_price # 0
    /\ arg.current_price <= arg.target
    /\ 10000 * arg.current_price < 95 * arg.stats.avg_7d
    /\ ret.text = "Target hit"

\* C9: with the price over the target and not under 95% of the average,
\* status Volatile gives a verdict of its own, different from the one the
\* same prices give with status Stable.
C9_VolatileVerdict ==
    ( /\ pc = "returned"
      /\ arg.fn = "get_recommendation"
      /\ arg.current_price > arg.target
      /\ 10000 * arg.current_price >= 95 * arg.stats.avg_7d
      /\ arg.stats.status = "Volatile" ) =>
        ret # GetRecommendation(arg.task_id, arg.current_price,
                                [avg_7d |-> arg.stats.avg_7d, status |-> "Stable"],
                                arg.target, arg.route_name)

----------------------------------------------------------------------------
(* Properties of calculate_stats, under SpecStats *)

RECURSIVE PriceSum(_, _)
PriceSum(recs, idx) ==
    IF idx = {} THEN 0
    ELSE LET k == CHOOSE x \in idx : TRUE
         IN  recs[k].price + PriceSum(recs, idx \ {k})

\* C10: the average is the mean (to the cent) of the valid snapshots of
\* the last 7 days when there is one, else of all valid snapshots; it is 0
\* exactly when the route has no valid snapshot.
C10_AverageOfValidSnapshots ==
    pc = "returned" /\ arg.fn = "calculate_stats" =>
        LET recs == Records(arg.history, arg.task_id)
            valid == { k \in 1..Len(recs) : recs[k].price > 0 }
            week == { k \in valid : today - recs[k].date <= 7 }
            used == IF week # {} THEN week ELSE valid
            n == Cardinality(used)
            d == ret.avg_7d * n - 100 * PriceSum(recs, used)
        IN  /\ valid = {} => ret.avg_7d = 0
            /\ valid # {} =>
                  /\ ret.avg_7d > 0
                  /\ 2 * d <= n
                  /\ 2 * d >= 0 - n

\* a call on a history with a price-0 record, whose valid snapshots are all
\* older than 7 days: the average falls back to all of them
C10_Witness ==
    /\ pc = "returned"
    /\ arg.fn = "calculate_stats"
    /\ LET recs == Records(arg.history, arg.task_id)
       IN  /\ \E k \in 1..Len(recs) : recs[k].price = 0
           /\ \E k \in 1..Len(recs) : recs[k].price > 0
           /\ \A k \in 1..Len(recs) :
                 recs[k].price > 0 => today - recs[k].date > 7
    /\ ret.avg_7d > 0

RECURSIVE SquaredGaps(_, _)
\* sum of (x_j - x_k)^2 over the pairs <<j, k>> of a set of pairs of indices
SquaredGaps(recs, pairs) ==
    IF pairs = {} THEN 0
    ELSE LET q == CHOOSE x \in pairs : TRUE
             g == recs[q[1]].price - recs[q[2]].price
         IN  g * g + SquaredGaps(recs, pairs \ {q})

\* C11: the status is Volatile exactly when the sample standard deviation
\* (divisor n - 1) of the prices of all the valid snapshots of the route,
\* in or out of the 7-day window, is strictly over 50; with fewer than two
\* valid snapshots it is Stable.  The sample variance of n values is the
\* sum of the squared gaps of their pairs divided by n * (n - 1).
C11_VolatileIffDeviationOver50 ==
    pc = "returned" /\ arg.fn = "calculate_stats" =>
        LET recs == Records(arg.history, arg.task_id)
            valid == { k \in 1..Len(recs) : recs[k].price > 0 }
            n == Cardinality(valid)
            pairs == { q \in valid \X valid : q[1] < q[2] }
        IN  /\ ret.status \in {"Stable", "Volatile"}
            /\ ret.status = "Volatile" <=>
                  (n >= 2 /\ SquaredGaps(recs, pairs) > 50 * 50 * n * (n - 1))

\* a call that gives Volatile on valid prices 50, 200, 50 of which only the
\* last is in the 7-day window
C11_Witness ==
    /\ pc = "returned"
    /\ arg.fn = "calculate_stats"
    /\ ret.status = "Volatile"
    /\ LET recs == Records(arg.history, arg.task_id)
       IN  /\ Len(recs) = 3
           /\ recs[1].price = 50 /\ recs[2].price = 200 /\ recs[3].price = 50
           /\ today - recs[2].date > 7
           /\ today - recs[3].date <= 7

----------------------------------------------------------------------------
(* Properties of the price extraction, under SpecParse *)

RECURSIVE NumeralValue(_)
\* the number a numeral stands for, its separators dropped
NumeralValue(n) ==
    IF n = << >> THEN 0
    ELSE IF n[Len(n)] = "," THEN NumeralValue(SubSeq(n, 1, Len(n) - 1))
    ELSE 10 * NumeralValue(SubSeq(n, 1, Len(n) - 1)) + DigitVal(n[Len(n)])

\* C12: a row whose label holds "<N> US dollars" gives a quote of price N,
\* whatever the length of N and also when a "$M" stands in the same row; a
\* row with only "$M" gives a quote of price M; a row with neither gives
\* no quote.
C12_PriceIsTheNumberWritten ==
    pc = "returned" /\ arg.fn = "read_row" =>
        /\ arg.n # << >> =>
              Len(ret) = 1 /\ ret[1].price = NumeralValue(arg.n)
        /\ (arg.n = << >> /\ arg.m # << >>) =>
              Len(ret) = 1 /\ ret[1].price = NumeralValue(arg.m)
        /\ (arg.n = << >> /\ arg.m = << >>) => ret = << >>

----------------------------------------------------------------------------
(* Properties of the runs from an empty or an injected store, under        *)
(* SpecMock                                                                *)

LatestIsLast(store) ==
    \A id \in DOMAIN store :
        LET recs == store[id].history
        IN  /\ recs # << >>
            /\ store[id].latest.date = recs[Len(recs)].date
            /\ store[id].latest.price = recs[Len(recs)].price

\* C13: every route present in the store, in memory or in the file, has a
\* non-empty history, and its latest entry has the date and the price of
\* the last element of that history.
C13_LatestIsLastSnapshot == LatestIsLast(history) /\ LatestIsLast(Persisted)

\* a run of the day after the injection saved a snapshot behind the mock
\* records of the first route
C13_Witness ==
    /\ pc = "done"
    /\ today = MockDays + 2
    /\ Len(Records(Persisted, "sf_weekend")) = MockDays + 2
    /\ Persisted["sf_weekend"].latest.date = today
    /\ Len(Records(Persisted, "desert_escape")) = MockDays + 1

====
